---- MODULE Spec2Model ----
(***************************************************************************)
(* The Redis persistence adapter of swiftide: Persist for Redis            *)
(* (swiftide/src/integrations/redis/persist.rs).                           *)
(*                                                                         *)
(* A Rust String is modelled as a sequence of string tokens, so that       *)
(* concatenation is \o and equality of strings is equality of sequences.   *)
(* Option<T> is a sequence of length at most one.  Result<T> is a record   *)
(* with the field ok and either val or err; an anyhow error is the chain   *)
(* of its messages, outermost context first.                               *)
(***************************************************************************)
EXTENDS Integers, Sequences, FiniteSets, TLC

\* Largest batch handed to batch_store.
MaxBatch == 2

None == <<>>
Some(x) == <<x>>

Ok(v) == [ok |-> TRUE, val |-> v]
Err(e) == [ok |-> FALSE, err |-> e]

\* anyhow::Context::context: wrap the error of a failed result in a message.
context(r, msg) == IF r.ok THEN r ELSE Err(<<msg>> \o r.err)

(***************************************************************************)
(* Nodes.  The tests build nodes with id Some(1) or the default (None), a  *)
(* path, a chunk, vector None and empty metadata.                          *)
(***************************************************************************)
Ids == {None, Some(1)}
Paths == {"test", "other"}
Chunks == {"chunk"}

IngestionNode == [id : Ids, path : Paths, chunk : Chunks,
                  vector : {None}, metadata : {<<>>}]

Batches == UNION {[1..n -> IngestionNode] : n \in 0..MaxBatch}

\* The derivation functions an adapter can be built with.
KeyFns == {"default", "fixed", "partial"}
ValueFns == {"default", "fixed", "strict"}

VARIABLES
    persist_key_fn,      \* configuration: the key derivation in use
    persist_value_fn,    \* configuration: the value derivation in use
    connection_manager,  \* TRUE iff the adapter holds a connection handle
    reachable,           \* environment: a round trip to the store completes
    db,                  \* the store's contents: key -> value
    last,                \* the last call: input, outcome, commands issued
    lastStored           \* key -> node of the acknowledged store call that
                         \* made the latest write to the key

vars == <<persist_key_fn, persist_value_fn, connection_manager, reachable,
          db, last, lastStored>>

(***************************************************************************)
(* Key and value derivation.                                               *)
(***************************************************************************)

\* A stand-in for the bytes of a string fed to the hasher.
StrCode(s) ==
    CASE s = "test" -> 11
      [] s = "other" -> 23
      [] s = "chunk" -> 5
      [] OTHER -> 0

\* The node's hash: over its path and its chunk, and nothing else.
calculate_hash(node) == (StrCode(node.path) * 31 + StrCode(node.chunk)) % 65536

\* serde_json::to_string(node): every field, in declaration order.
to_json(node) ==
    <<"{", "id", IF node.id = None THEN "null" ELSE ToString(node.id[1]),
      "path", node.path, "chunk", node.chunk,
      "vector", "null", "metadata", "{}", "}">>

\* serde_json::from_str: parses the tokens back into a node, or fails.
from_str(s) ==
    IF /\ Len(s) = 12
       /\ <<s[1], s[2], s[4], s[6], s[8], s[9], s[10], s[11], s[12]>>
            = <<"{", "id", "path", "chunk", "vector", "null", "metadata", "{}", "}">>
       /\ \/ s[3] = "null"
          \/ \E n \in 0..9 : ToString(n) = s[3]
    THEN Ok([id |-> IF s[3] = "null" THEN None
                    ELSE Some(CHOOSE n \in 0..9 : ToString(n) = s[3]),
             path |-> s[5], chunk |-> s[7],
             vector |-> None, metadata |-> <<>>])
    ELSE Err(<<"expected a node">>)

\* The key of a node: the configured persist_key_fn, or path ":" hash.
\* "fixed" is the key function of test_redis_custom_persist; "partial" is a
\* key function that needs the node's id and fails on a node without one.
persist_key_for_node(node) ==
    CASE persist_key_fn = "fixed" -> Ok(<<"test">>)
      [] persist_key_fn = "partial" ->
            IF node.id = None
            THEN Err(<<"persist_key_fn: node has no id", node.path>>)
            ELSE Ok(<<"id", ToString(node.id[1])>>)
      [] OTHER -> Ok(<<node.path, ":", ToString(calculate_hash(node))>>)

\* The value of a node: the configured persist_value_fn, or the node as JSON.
\* "fixed" is the value function of test_redis_custom_persist; "strict" is a
\* value function that rejects the nodes of path "other".
persist_value_for_node(node) ==
    CASE persist_value_fn = "fixed" -> Ok(<<"hello world">>)
      [] persist_value_fn = "strict" ->
            IF node.path = "other"
            THEN Err(<<"persist_value_fn: path rejected", to_json(node)[3]>>)
            ELSE Ok(<<node.chunk>>)
      [] OTHER -> Ok(to_json(node))

(***************************************************************************)
(* The Redis server, as the adapter sees it through the client.            *)
(***************************************************************************)
Cmd(name, args) == [name |-> name, args |-> args]

EmptyDb == [k \in {} |-> <<>>]

Write(d, k, v) == [x \in DOMAIN d \cup {k} |-> IF x = k THEN v ELSE d[x]]

Forget(d, ks) == [x \in DOMAIN d \ ks |-> d[x]]

\* GET key
Get(d, k) == IF k \in DOMAIN d THEN Some(d[k]) ELSE None

\* The server checks a command's number of arguments before running it:
\* SET key value; SETNX key value; MSET key value [key value ...].
ArityOk(cmd) ==
    CASE cmd.name = "MSET" -> Len(cmd.args) >= 2 /\ Len(cmd.args) % 2 = 0
      [] OTHER -> Len(cmd.args) = 2

RECURSIVE MsetApply(_, _)
MsetApply(d, args) ==
    IF Len(args) < 2 THEN d
    ELSE MsetApply(Write(d, args[1], args[2]), SubSeq(args, 3, Len(args)))

\* The server's contents after it ran a well-formed command.
Apply(d, cmd) ==
    CASE cmd.name = "SET" -> Write(d, cmd.args[1], cmd.args[2])
      [] cmd.name = "SETNX" ->
            IF cmd.args[1] \in DOMAIN d THEN d ELSE Write(d, cmd.args[1], cmd.args[2])
      [] cmd.name = "MSET" -> MsetApply(d, cmd.args)
      [] OTHER -> d

\* cmd.query_async(&mut cm): the reply and the server's contents afterwards.
\* up: the round trip completes.  When it does not, the client sees an error
\* and the server may (applied) or may not have run the command.
query_async(d, cmd, up, applied) ==
    IF ~ArityOk(cmd)
    THEN [reply |-> IF up THEN Err(<<"ERR wrong number of arguments">>)
                    ELSE Err(<<"io error">>),
          db |-> d]
    ELSE IF up THEN [reply |-> Ok(<<>>), db |-> Apply(d, cmd)]
    ELSE [reply |-> Err(<<"io error">>), db |-> IF applied THEN Apply(d, cmd) ELSE d]

\* lazy_connect: the handle held, or a new one if the store can be reached.
lazy_connect(held, up) == held \/ up

\* redis.get_node(node): GET of the node's key.
get_node(d, node) ==
    LET key == persist_key_for_node(node)
    IN  IF key.ok THEN Ok(Get(d, key.val)) ELSE key

(***************************************************************************)
(* Persist for Redis.  Each operation is computed as a record: the result  *)
(* handed to the caller, the commands issued, the replies to them, and    *)
(* the store's contents afterwards.                                        *)
(***************************************************************************)
Call(result, issued, replies, d) ==
    [result |-> result, issued |-> issued, replies |-> replies, db |-> d]

\* setup: nothing to provision.
setup == Ok(<<>>)

\* Mutant: the write is skipped when the key exists.
set_cmd_nx(key, value) == Cmd("SETNX", <<key, value>>)

\* Mutant: the arguments of the SET in the wrong order.
set_cmd_swapped(key, value) == Cmd("SET", <<value, key>>)

\* redis::cmd("SET").arg(key).arg(value)
set_cmd(key, value) == Cmd("SET", <<key, value>>)

\* Mutant: store hands back a fresh default node instead of its input.
store_ok_default(node) == Ok([node EXCEPT !.id = None, !.path = "other"])

\* What store returns once the SET was acknowledged.
store_ok(node) == Ok(node)

\* store with a connection: derive the key, then the value, each "?" returning
\* its error as it is; one SET; the node on success.
store_some(node, d, up, applied) ==
    LET key == persist_key_for_node(node)
        value == persist_value_for_node(node)
    IN  IF ~key.ok THEN Call(key, <<>>, <<>>, d)
        ELSE IF ~value.ok THEN Call(value, <<>>, <<>>, d)
        ELSE LET cmd == set_cmd(key.val, value.val)
                 q == query_async(d, cmd, up, applied)
                 r == context(q.reply, "Error persisting to redis")
             IN  Call(IF r.ok THEN store_ok(node) ELSE r, <<cmd>>, <<q.reply>>, q.db)

\* store without a connection.
store_none(d) == Call(Err(<<"Failed to connect to Redis">>), <<>>, <<>>, d)

\* Mutant: store goes on to write without a connection.
store_call_unchecked(node, cm, d, up, applied) == store_some(node, d, up, applied)

store_call(node, cm, d, up, applied) ==
    IF cm THEN store_some(node, d, up, applied) ELSE store_none(d)

\* Mutant: the nodes whose derivation fails are skipped, the rest persisted.
collect_args_skipping(nodes) ==
    LET kept == SelectSeq(nodes, LAMBDA n :
                    persist_key_for_node(n).ok /\ persist_value_for_node(n).ok)
    IN  Ok([i \in 1..Len(kept) |->
              <<persist_key_for_node(kept[i]).val, persist_value_for_node(kept[i]).val>>])

\* nodes.iter().map(..).collect::<Result<Vec<_>>>(): the [key, value] pairs in
\* input order, or the error of the first derivation that fails.
RECURSIVE collect_from(_, _, _)
collect_from(nodes, i, acc) ==
    IF i > Len(nodes) THEN Ok(acc)
    ELSE LET key == persist_key_for_node(nodes[i])
             value == persist_value_for_node(nodes[i])
         IN  IF ~key.ok THEN key
             ELSE IF ~value.ok THEN value
             ELSE collect_from(nodes, i + 1, Append(acc, <<key.val, value.val>>))

collect_args(nodes) == collect_from(nodes, 1, <<>>)

\* Mutant: the bulk write keeps the first pair written for a key.
RECURSIVE mset_args_reversed(_)
mset_args_reversed(args) ==
    IF args = <<>> THEN <<>> ELSE mset_args_reversed(Tail(args)) \o Head(args)

\* redis::cmd("MSET").arg(args): a Vec<Vec<String>> is written element by
\* element, so the command's arguments are key1 value1 key2 value2 ...
RECURSIVE mset_args(_)
mset_args(args) ==
    IF args = <<>> THEN <<>> ELSE Head(args) \o mset_args(Tail(args))

mset_cmd(args) == Cmd("MSET", mset_args(args))

\* Mutant: the nodes are yielded from the back of the batch.
batch_outcomes_reversed(nodes, result) ==
    IF result.ok THEN [i \in 1..Len(nodes) |-> Ok(nodes[Len(nodes) + 1 - i])]
    ELSE <<result>>

\* Mutant: a failed MSET still yields the nodes, followed by the error.
batch_outcomes_mixed(nodes, result) ==
    [i \in 1..Len(nodes) |-> Ok(nodes[i])] \o (IF result.ok THEN <<>> ELSE <<result>>)

\* The stream returned after the MSET: every node, in order, or the error.
batch_outcomes(nodes, result) ==
    IF result.ok THEN [i \in 1..Len(nodes) |-> Ok(nodes[i])] ELSE <<result>>

\* batch_store with a connection.
batch_some(nodes, d, up, applied) ==
    LET args == collect_args(nodes)
    IN  IF ~args.ok THEN Call(<<args>>, <<>>, <<>>, d)
        ELSE LET cmd == mset_cmd(args.val)
                 q == query_async(d, cmd, up, applied)
                 result == context(q.reply, "Error persisting to redis")
             IN  Call(batch_outcomes(nodes, result), <<cmd>>, <<q.reply>>, q.db)

\* Mutant: without a connection, one error per node of the batch.
batch_none_per_node(nodes, d) ==
    Call([i \in 1..Len(nodes) |-> Err(<<"Failed to connect to Redis">>)], <<>>, <<>>, d)

\* batch_store without a connection.
batch_none(nodes, d) ==
    Call(<<Err(<<"Failed to connect to Redis">>)>>, <<>>, <<>>, d)

batch_call(nodes, cm, d, up, applied) ==
    IF cm THEN batch_some(nodes, d, up, applied) ELSE batch_none(nodes, d)

(***************************************************************************)
(* The state machine.                                                      *)
(***************************************************************************)
NoCall == [op |-> "none", nodes |-> <<>>, conn |-> FALSE, reachable |-> FALSE,
           outcomes |-> <<>>, issued |-> <<>>, replies |-> <<>>,
           dbBefore |-> EmptyDb]

Init ==
    /\ persist_key_fn \in KeyFns
    /\ persist_value_fn \in ValueFns
    /\ connection_manager = FALSE
    /\ reachable \in BOOLEAN
    /\ db = EmptyDb
    /\ last = NoCall
    /\ lastStored = EmptyDb

\* The keys a command writes.
KeysOf(cmd) == {cmd.args[i] : i \in {j \in 1..Len(cmd.args) : j % 2 = 1}}

KeysWritten(issued) == UNION {KeysOf(issued[i]) : i \in 1..Len(issued)}

Record(op, nodes, cm, r) ==
    /\ connection_manager' = cm
    /\ db' = r.db
    /\ last' = [op |-> op, nodes |-> nodes, conn |-> cm, reachable |-> reachable,
                outcomes |-> IF op = "store" THEN <<r.result>> ELSE r.result,
                issued |-> r.issued, replies |-> r.replies, dbBefore |-> db]
    /\ UNCHANGED <<persist_key_fn, persist_value_fn, reachable>>

store(node) ==
    \E applied \in (IF reachable THEN {FALSE} ELSE BOOLEAN) :
    \E cm \in {lazy_connect(connection_manager, reachable)} :
    \E r \in {store_call(node, cm, db, reachable, applied)} :
            /\ Record("store", <<node>>, cm, r)
            /\ lastStored' =
                  IF r.result.ok
                  THEN Write(lastStored, persist_key_for_node(node).val, node)
                  ELSE IF r.db # db THEN Forget(lastStored, KeysWritten(r.issued))
                  ELSE lastStored

batch_store(nodes) ==
    \E applied \in (IF reachable THEN {FALSE} ELSE BOOLEAN) :
    \E cm \in {lazy_connect(connection_manager, reachable)} :
    \E r \in {batch_call(nodes, cm, db, reachable, applied)} :
            /\ Record("batch_store", nodes, cm, r)
            /\ lastStored' =
                  IF r.db # db THEN Forget(lastStored, KeysWritten(r.issued))
                  ELSE lastStored

\* The environment: the store becomes unreachable, or reachable again.
NetworkChange ==
    /\ reachable' = ~reachable
    /\ UNCHANGED <<persist_key_fn, persist_value_fn, connection_manager, db,
                   last, lastStored>>

Next ==
    \/ \E node \in IngestionNode : store(node)
    \/ \E nodes \in Batches : batch_store(nodes)
    \/ NetworkChange

Spec == Init /\ [][Next]_vars

(***************************************************************************)
(* Properties.                                                             *)
(***************************************************************************)
ConnectionError == Err(<<"Failed to connect to Redis">>)

KeyOf(node) == persist_key_for_node(node)
ValueOf(node) == persist_value_for_node(node)

Derives(node) == KeyOf(node).ok /\ ValueOf(node).ok

\* Derivation was run, and failed for the i-th node.
DerivationFailedAt(i) == last.conn /\ i \in 1..Len(last.nodes) /\ ~Derives(last.nodes[i])

DerivationFailed == \E i \in 1..Len(last.nodes) : DerivationFailedAt(i)

\* The error of a node whose derivation fails: the key is derived first.
DerivationError(node) == IF ~KeyOf(node).ok THEN KeyOf(node) ELSE ValueOf(node)

AllOk(outcomes) == \A i \in 1..Len(outcomes) : outcomes[i].ok

\* The bulk command was issued and acknowledged / issued and failed.
MsetSucceeded == last.op = "batch_store" /\ Len(last.replies) = 1 /\ last.replies[1].ok
MsetFailed == last.op = "batch_store" /\ Len(last.replies) = 1 /\ ~last.replies[1].ok

\* Reading the node's key returns the node's value.
ReadsBack(node) == Derives(node) /\ get_node(db, node) = Ok(Some(ValueOf(node).val))

\* Reading the node's key returns a value that decodes to the node.
DecodesBack(node) ==
    /\ KeyOf(node).ok
    /\ get_node(db, node).val # None
    /\ from_str(get_node(db, node).val[1]) = Ok(node)

\* C1: right after store(N) returned success, reading N's derived key returns
\* N's derived value, whatever derivation functions are configured, and with
\* the default value derivation that value decodes to a node equal to N.
Thm_C1 ==
    (last.op = "store" /\ last.outcomes[1].ok) =>
        /\ ReadsBack(last.nodes[1])
        /\ persist_value_fn = "default" => DecodesBack(last.nodes[1])

Wit_C1 ==
    /\ last.op = "store" /\ last.outcomes[1].ok
    /\ persist_key_fn = "default" /\ persist_value_fn = "default"
    /\ last.nodes[1].id = Some(1)
    /\ DecodesBack(last.nodes[1])

\* C2: when the connection is available, every derivation succeeds and the
\* MSET succeeds, batch_store yields one success per node, the i-th outcome
\* being the i-th input node.
Thm_C2 ==
    (last.op = "batch_store" /\ last.conn
        /\ (\A i \in 1..Len(last.nodes) : Derives(last.nodes[i]))
        /\ MsetSucceeded) =>
        /\ Len(last.outcomes) = Len(last.nodes)
        /\ \A i \in 1..Len(last.nodes) : last.outcomes[i] = Ok(last.nodes[i])

Wit_C2 ==
    /\ MsetSucceeded
    /\ Len(last.nodes) = 2 /\ last.nodes[1] # last.nodes[2]
    /\ AllOk(last.outcomes)

\* C3 as stated: with a reachable store, a key derivation that never fails
\* and the default value derivation, after batch_store every node of the
\* batch, two nodes of one key included, reads back by its key as a value
\* that decodes to it.
Orig_C3 ==
    (last.op = "batch_store" /\ last.reachable
        /\ persist_key_fn \in {"default", "fixed"}
        /\ persist_value_fn = "default") =>
        \A i \in 1..Len(last.nodes) : DecodesBack(last.nodes[i])

\* C3 amended: after a batch_store that yielded only successes, every node of
\* the batch that no later node of the batch shares its key with reads back
\* as its derived value, which decodes to it under the default value
\* derivation.
Thm_C3 ==
    (last.op = "batch_store" /\ AllOk(last.outcomes)) =>
        \A i \in 1..Len(last.nodes) :
            (\A j \in (i + 1)..Len(last.nodes) :
                KeyOf(last.nodes[j]) # KeyOf(last.nodes[i])) =>
                /\ ReadsBack(last.nodes[i])
                /\ persist_value_fn = "default" => DecodesBack(last.nodes[i])

Wit_C3 ==
    /\ last.op = "batch_store" /\ AllOk(last.outcomes)
    /\ persist_value_fn = "default"
    /\ Len(last.nodes) = 2
    /\ KeyOf(last.nodes[1]) = KeyOf(last.nodes[2])
    /\ last.nodes[1] # last.nodes[2]
    /\ DecodesBack(last.nodes[2])

\* C4: when no connection is available, store and batch_store return the
\* connection error, issue no command and leave the store as it was.
Thm_C4 ==
    (last.op # "none" /\ ~last.conn) =>
        /\ last.outcomes = <<ConnectionError>>
        /\ last.issued = <<>>
        /\ db = last.dbBefore

Wit_C4 == last.op = "store" /\ ~last.conn /\ Derives(last.nodes[1])

\* C5 as stated: without a connection, batch_store on k nodes yields k
\* connection errors.
Orig_C5 ==
    (last.op = "batch_store" /\ ~last.conn) =>
        /\ Len(last.outcomes) = Len(last.nodes)
        /\ \A i \in 1..Len(last.outcomes) : last.outcomes[i] = ConnectionError

\* C5 amended: without a connection, batch_store yields exactly one outcome,
\* the connection error, whatever the size of the batch.
Thm_C5 ==
    (last.op = "batch_store" /\ ~last.conn) =>
        /\ Len(last.outcomes) = 1
        /\ last.outcomes[1] = ConnectionError

Wit_C5 == last.op = "batch_store" /\ ~last.conn /\ Len(last.nodes) = 2

\* C6: if the derivation of a key or a value fails for a node of the batch, at
\* any position, batch_store issues no command, leaves the store as it was,
\* and yields exactly one outcome: the derivation error of the first node
\* that fails.
Thm_C6 ==
    (last.op = "batch_store" /\ DerivationFailed) =>
        /\ last.issued = <<>>
        /\ db = last.dbBefore
        /\ \E i \in 1..Len(last.nodes) :
              /\ DerivationFailedAt(i)
              /\ \A j \in 1..(i - 1) : Derives(last.nodes[j])
              /\ last.outcomes = <<DerivationError(last.nodes[i])>>

Wit_C6 ==
    /\ last.op = "batch_store" /\ Len(last.nodes) = 2
    /\ Derives(last.nodes[1]) /\ DerivationFailedAt(2)
    /\ db # EmptyDb

\* C7: the value read under a key is the derived value of the node of the
\* most recent successful store call that derives the key: the last write
\* wins.
Thm_C7 ==
    \A k \in DOMAIN lastStored :
        /\ KeyOf(lastStored[k]) = Ok(k)
        /\ Get(db, k) = Some(ValueOf(lastStored[k]).val)

Wit_C7 ==
    /\ last.op = "store" /\ last.outcomes[1].ok
    /\ persist_key_fn = "fixed"
    /\ Get(last.dbBefore, <<"test">>) # None
    /\ Get(last.dbBefore, <<"test">>) # Get(db, <<"test">>)
    /\ lastStored[<<"test">>] = last.nodes[1]

\* C8: when the MSET fails, batch_store yields exactly one outcome, the
\* failure wrapping the cause; and every sequence batch_store yields is all
\* successes or a single failure.
Thm_C8 ==
    last.op = "batch_store" =>
        /\ MsetFailed =>
              last.outcomes =
                  <<Err(<<"Error persisting to redis">> \o last.replies[1].err)>>
        /\ \/ AllOk(last.outcomes)
           \/ Len(last.outcomes) = 1 /\ ~last.outcomes[1].ok

Wit_C8 == MsetFailed /\ Len(last.nodes) = 2 /\ Len(last.outcomes) = 1

\* C9: a store call whose derivation fails issues no SET, leaves the store as
\* it was and returns the derivation error as it is; a store call that
\* succeeds issued exactly one SET, and nothing else, and returns its input.
Thm_C9 ==
    last.op = "store" =>
        /\ DerivationFailed =>
              /\ last.issued = <<>>
              /\ db = last.dbBefore
              /\ last.outcomes = <<DerivationError(last.nodes[1])>>
        /\ last.outcomes[1].ok =>
              /\ Len(last.issued) = 1
              /\ last.issued[1].name = "SET"
              /\ last.outcomes[1] = Ok(last.nodes[1])

Wit_C9 == last.op = "store" /\ DerivationFailed /\ db # EmptyDb

\* C10 as stated: for the empty batch with a reachable store, batch_store
\* yields no outcome at all.
Orig_C10 ==
    (last.op = "batch_store" /\ last.nodes = <<>> /\ last.reachable) =>
        last.outcomes = <<>>

====
